---- MODULE Spec2Model ----
(***************************************************************************)
(* RideDEventSink (src/ride_d_event_sink.py): the subscriber registry, the *)
(* subscription handler, the delivery dispatcher and the start-up route   *)
(* installer, as a state machine.  The Tree Provider (RideD), its topology *)
(* manager and the CoAP client are external: each of their calls is a      *)
(* nondeterministic choice among the outcomes the call can have (a value,  *)
(* an IOError, another exception).                                         *)
(***************************************************************************)
EXTENDS FiniteSets, Integers, Sequences, TLC

(* ------------------------------ bounds --------------------------------- *)
NumHosts == 2
NumSubThreads == 2
MaxSubCalls == 2

MaxSendCalls == 2
NumPublishers == 2
MaxRules == 2
MaxTicks == 2
MaxEvents == 2
MaxPicks == 2
MaxFlushes == 2

(* ------------------------- program constants --------------------------- *)
SEISMIC_ALERT_TOPIC == "seismic_alert"
SEISMIC_PICK_TOPIC == "seismic"
OtherTopic == "other"
Topics == {SEISMIC_ALERT_TOPIC, OtherTopic}
topics_to_sink == {SEISMIC_ALERT_TOPIC}
DEFAULT_COAP_PORT == 5683
port == DEFAULT_COAP_PORT
ntrees == 2
Hosts == {<<"host", i>> : i \in 1..NumHosts}
McastAddresses == {<<"mcast", i>> : i \in 1..ntrees}
NoAddress == <<"None">>
Payloads == {"P", "Q"}
SubThreads == 1..NumSubThreads
NoThread == 0
Dispatchers == {"w1", "w2"}
PublisherIds == 1..NumPublishers

VARIABLES
    use_multicast,      \* self.use_multicast
    rided,              \* self.rided: "None", "Configured" (dict) or "Ready" (RideD)
    subscribers,        \* self.subscribers: dict topic -> set of hosts
    subscriber_lock,    \* self.__subscriber_lock: the holder, or NoThread
    sub,                \* per thread: the process_subscription call it is in
    subCalls,           \* number of process_subscription calls started
    requested,          \* the (topic, host) pairs process_subscription was called with
    validated,          \* hosts for which get_host_by_ip and get_path succeeded
    rided_subscribers,  \* sequence of rided.add_subscriber calls made
    disp,               \* per dispatcher thread: the send_event call it is in
    sent,               \* per dispatcher thread: the coap_client.put calls of that call
    sendCalls,          \* number of send_event calls started
    coap_client_server, \* self.coap_client.server: the destination of the next put
    publishers,         \* self.publishers: given or None, and the list
    start,              \* on_start: where it is, the publisher it is at
    timer_scheduled,    \* the repeating timed_call of __maintain_topology is set
    installed_rules,    \* per publisher: install_flow_rule calls that returned
    publisher_routes,   \* publishers given to rided.set_publisher_route
    tried,              \* publishers whose route computation was started
    failed,             \* publishers one of whose steps raised
    elapsed,            \* maintenance intervals gone by since the timer was set
    pending,            \* timer firings whose __maintain_topology has not started
    updating,           \* a rided.update() call is in progress
    refreshes,          \* the rided.update() calls that ended, with how they ended
    events,             \* the events on_event was called with
    notified,           \* the hosts given to rided.notify_publication
    coap_rejected,      \* (topic, host) of the CoAP requests the endpoint refused
    events_rcvd,        \* SeismicServer.events_rcvd: the picks waiting to be forwarded
    datagrams,          \* the datagrams handle_read has read
    parsed,             \* the picks json.loads accepted
    aggregates,         \* the aggregates sendto has sent
    sender,             \* where the timer thread stands in send_events
    flushes             \* the times the send_events timer has fired

subVars == <<subscribers, subscriber_lock, sub, subCalls, requested, validated,
             rided_subscribers>>
dispVars == <<disp, sent, sendCalls, coap_client_server>>
srvVars == <<events_rcvd, datagrams, parsed, aggregates, sender, flushes>>
auxVars == <<elapsed, pending, updating, refreshes, events, notified, coap_rejected,
             srvVars>>
cfgVars == <<use_multicast, rided, publishers, start, timer_scheduled, installed_rules,
             publisher_routes, tried, failed, auxVars>>
startVars == <<publishers, start, timer_scheduled, installed_rules, publisher_routes,
               tried, failed>>
vars == <<use_multicast, rided, subscribers, subscriber_lock, sub, subCalls,
          requested, validated, rided_subscribers, disp, sent, sendCalls,
          coap_client_server, publishers, start, timer_scheduled, installed_rules,
          publisher_routes, tried, failed, elapsed, pending, updating, refreshes,
          events, notified, coap_rejected, events_rcvd, datagrams, parsed,
          aggregates, sender, flushes>>

(* get_host_by_ip: the topology node the provider knows the address as *)
NodeOf(host) == <<"node", host>>

IdleSub == [pc |-> "idle", topic |-> SEISMIC_ALERT_TOPIC, host |-> <<"host", 1>>,
            changed |-> FALSE, ret |-> "none"]

(* ----------------------- process_subscription -------------------------- *)
(* line 246: the call arrives with its arguments *)
SubCall(t) ==
    /\ sub[t].pc = "idle"
    /\ subCalls < MaxSubCalls
    /\ \E topic \in Topics, host \in Hosts :
         /\ sub' = [sub EXCEPT ![t] = [pc |-> "lock", topic |-> topic, host |-> host,
                                       changed |-> FALSE, ret |-> "none"]]
         /\ requested' = requested \cup {<<topic, host>>}
    /\ subCalls' = subCalls + 1
    /\ UNCHANGED <<cfgVars, dispVars, subscribers, subscriber_lock, validated,
                   rided_subscribers>>

(* the insert entered without waiting for the lock *)
SubAcquire_NoWait(t) ==
    /\ sub[t].pc = "lock"
    /\ subscriber_lock' = t
    /\ sub' = [sub EXCEPT ![t].pc = "setdefault"]
    /\ UNCHANGED <<cfgVars, dispVars, subscribers, subCalls, requested, validated,
                   rided_subscribers>>

(* line 257: with self.__subscriber_lock *)
SubAcquire(t) ==
    /\ sub[t].pc = "lock"
    /\ subscriber_lock = NoThread
    /\ subscriber_lock' = t
    /\ sub' = [sub EXCEPT ![t].pc = "setdefault"]
    /\ UNCHANGED <<cfgVars, dispVars, subscribers, subCalls, requested, validated,
                   rided_subscribers>>

(* self.subscribers[topic] = set() in place of setdefault: an existing set *)
(* is thrown away                                                          *)
SetDefault_Reset(d, topic) ==
    [k \in DOMAIN d \cup {topic} |-> IF k = topic THEN {} ELSE d[k]]

(* dict.setdefault(topic, set()) *)
SetDefault(d, topic) ==
    IF topic \in DOMAIN d THEN d
    ELSE [k \in DOMAIN d \cup {topic} |-> IF k = topic THEN {} ELSE d[k]]

(* an add that puts the host in place of the ones stored *)
AddHost_Replace(d, topic, host) == [d EXCEPT ![topic] = {host}]

(* an add that takes out a host it finds already there *)
AddHost_Toggle(d, topic, host) ==
    [d EXCEPT ![topic] = IF host \in @ THEN @ \ {host} ELSE @ \cup {host}]

(* set.add(host) on the set stored under topic *)
AddHost(d, topic, host) == [d EXCEPT ![topic] = @ \cup {host}]

(* line 258, first half: self.subscribers.setdefault(topic, set()).  The  *)
(* statement is two method calls, setdefault and then add; the lock keeps  *)
(* other inserts out, but check_available and send_event read the registry *)
(* without it and can run between the two.                                 *)
SubSetDefault(t) ==
    /\ sub[t].pc = "setdefault"
    /\ subscribers' = SetDefault(subscribers, sub[t].topic)
    /\ sub' = [sub EXCEPT ![t].pc = "add",
                          ![t].changed = (subscribers' # subscribers)]
    /\ UNCHANGED <<cfgVars, dispVars, subscriber_lock, subCalls, requested, validated,
                   rided_subscribers>>

(* line 258, second half: .add(host); leaving the with block frees the lock *)
SubAdd(t) ==
    /\ sub[t].pc = "add"
    /\ subscribers' = AddHost(subscribers, sub[t].topic, sub[t].host)
    /\ subscriber_lock' = NoThread
    /\ sub' = [sub EXCEPT ![t].pc = "check",
                          ![t].changed = (@ \/ subscribers' # subscribers)]
    /\ UNCHANGED <<cfgVars, dispVars, subCalls, requested, validated, rided_subscribers>>

(* line 260: if self.rided.  None is false; the parameter dict and the    *)
(* RideD object are both true.  On the dict, line 265 raises              *)
(* AttributeError, and so does self.rided.dpid in the handler at line 271, *)
(* so the exception leaves the call.                                       *)
(* the validation entered whatever self.rided is *)
AfterInsert_Validate(r) == [r EXCEPT !.pc = "resolve"]

AfterInsert(r) ==
    CASE rided = "None"       -> [r EXCEPT !.pc = "done", !.ret = "True"]
      [] rided = "Configured" -> [r EXCEPT !.pc = "done", !.ret = "raised"]
      [] OTHER                -> [r EXCEPT !.pc = "resolve"]

SubCheck(t) ==
    /\ sub[t].pc = "check"
    /\ sub' = [sub EXCEPT ![t] = AfterInsert(@)]
    /\ UNCHANGED <<cfgVars, dispVars, subscribers, subscriber_lock, subCalls, requested,
                   validated, rided_subscribers>>

(* line 265: get_host_by_ip(host); a failure is caught at 270 and the call *)
(* returns False at 272                                                    *)
SubResolve(t) ==
    /\ sub[t].pc = "resolve"
    /\ \E ok \in BOOLEAN :
         sub' = [sub EXCEPT ![t] = IF ok THEN [@ EXCEPT !.pc = "path"]
                                   ELSE [@ EXCEPT !.pc = "done", !.ret = "False"]]
    /\ UNCHANGED <<cfgVars, dispVars, subscribers, subscriber_lock, subCalls, requested,
                   validated, rided_subscribers>>

(* a get_path whose failure is not looked at: the call goes on to         *)
(* add_subscriber either way                                               *)
SubPath_NoCheck(t) ==
    /\ sub[t].pc = "path"
    /\ sub' = [sub EXCEPT ![t].pc = "lock2"]
    /\ \E ok \in BOOLEAN :
         validated' = IF ok THEN validated \cup {sub[t].host} ELSE validated
    /\ UNCHANGED <<cfgVars, dispVars, subscribers, subscriber_lock, subCalls, requested,
                   rided_subscribers>>

(* line 267: get_path(host, dpid) *)
SubPath(t) ==
    /\ sub[t].pc = "path"
    /\ \E ok \in BOOLEAN :
         /\ sub' = [sub EXCEPT ![t] = IF ok THEN [@ EXCEPT !.pc = "lock2"]
                                      ELSE [@ EXCEPT !.pc = "done", !.ret = "False"]]
         /\ validated' = IF ok THEN validated \cup {sub[t].host} ELSE validated
    /\ UNCHANGED <<cfgVars, dispVars, subscribers, subscriber_lock, subCalls, requested,
                   rided_subscribers>>

(* line 268: with self.__subscriber_lock *)
SubAcquire2(t) ==
    /\ sub[t].pc = "lock2"
    /\ subscriber_lock = NoThread
    /\ subscriber_lock' = t
    /\ sub' = [sub EXCEPT ![t].pc = "add_subscriber"]
    /\ UNCHANGED <<cfgVars, dispVars, subscribers, subCalls, requested, validated,
                   rided_subscribers>>

(* line 269: rided.add_subscriber(host, topic_id=SEISMIC_ALERT_TOPIC); the *)
(* lock is freed and the call returns True at 274                          *)
SubAddSubscriber(t) ==
    /\ sub[t].pc = "add_subscriber"
    /\ rided_subscribers' = Append(rided_subscribers,
                                   [node |-> NodeOf(sub[t].host),
                                    topic |-> SEISMIC_ALERT_TOPIC, by |-> t])
    /\ subscriber_lock' = NoThread
    /\ sub' = [sub EXCEPT ![t].pc = "done", ![t].ret = "True"]
    /\ UNCHANGED <<cfgVars, dispVars, subscribers, subCalls, requested, validated>>

(* the caller has the result; the thread can take the next request *)
SubReturn(t) ==
    /\ sub[t].pc = "done"
    /\ sub' = [sub EXCEPT ![t] = IdleSub]
    /\ UNCHANGED <<cfgVars, dispVars, subscribers, subscriber_lock, subCalls, requested,
                   validated, rided_subscribers>>

(* line 321 *)
check_available(topic) == topic \in topics_to_sink /\ topic \in DOMAIN subscribers

(* self.subscribers.get(topic, []) as a set *)
SubscribersOf(topic) == IF topic \in DOMAIN subscribers THEN subscribers[topic] ELSE {}

(* ----------------------------- send_event ------------------------------ *)
(* line 202: self.encode_event(event) *)
EncodeEvent(topic, payload) == <<"encoded", topic, payload>>

(* line 167: path = "/events/%s" % topic *)
PathOf(topic) == <<"events", topic>>

(* the destination left at the dummy of line 88 *)
ServerFor_Dummy(address) == <<(<<"mcast", 1>>), port>>

(* line 171: self.coap_client.server = (address, port), port being self.port *)
ServerFor(address) == <<address, port>>

IdleDisp == [pc |-> "idle", topic |-> SEISMIC_ALERT_TOPIC, msg |-> << >>,
             address |-> NoAddress, lookup |-> <<"none">>, live |-> FALSE,
             iter_set |-> {}, remaining |-> {}, error |-> "none", ret |-> "none"]

(* lines 196-203: the call arrives, the event is encoded once *)
SendCall(d) ==
    /\ disp[d].pc = "idle"
    /\ sendCalls < MaxSendCalls
    /\ \E topic \in Topics, payload \in Payloads :
         disp' = [disp EXCEPT ![d] = [IdleDisp EXCEPT !.pc = "dispatch", !.topic = topic,
                                         !.msg = EncodeEvent(topic, payload)]]
    /\ sent' = [sent EXCEPT ![d] = << >>]
    /\ sendCalls' = sendCalls + 1
    /\ UNCHANGED <<cfgVars, subVars, coap_client_server>>

(* lines 208-211, multicast: get_best_multicast_address(topic).  On the     *)
(* parameter dict the attribute lookup raises AttributeError.  The built   *)
(* provider answers with an address, answers None, or raises: an IOError   *)
(* is caught at 221, any other exception (KeyError) leaves send_event.     *)
LookupOutcomes == McastAddresses \cup {NoAddress, <<"KeyError">>, <<"IOError">>}

AfterLookup(r, outcome) ==
    CASE outcome = <<"AttributeError">> ->
           [r EXCEPT !.pc = "done", !.lookup = outcome,
                     !.error = "AttributeError", !.ret = "raised"]
      [] outcome = <<"KeyError">> ->
           [r EXCEPT !.pc = "done", !.lookup = outcome, !.error = "KeyError",
                     !.ret = "raised"]
      [] outcome = <<"IOError">> ->
           [r EXCEPT !.pc = "done", !.lookup = outcome, !.error = "IOError",
                     !.ret = "False"]
      [] OTHER ->
           [r EXCEPT !.pc = "sendto", !.lookup = outcome, !.address = outcome]

(* a lookup that waits for a refresh in progress to end *)
DispLookup_AfterUpdate(d) ==
    /\ disp[d].pc = "dispatch"
    /\ use_multicast
    /\ ~updating
    /\ \E outcome \in (IF rided = "Ready" THEN LookupOutcomes ELSE {<<"AttributeError">>}) :
         disp' = [disp EXCEPT ![d] = AfterLookup(@, outcome)]
    /\ UNCHANGED <<cfgVars, subVars, sent, sendCalls, coap_client_server>>

DispLookup(d) ==
    /\ disp[d].pc = "dispatch"
    /\ use_multicast
    /\ \E outcome \in (IF rided = "Ready" THEN LookupOutcomes ELSE {<<"AttributeError">>}) :
         disp' = [disp EXCEPT ![d] = AfterLookup(@, outcome)]
    /\ UNCHANGED <<cfgVars, subVars, sent, sendCalls, coap_client_server>>

(* line 216, unicast: iter(self.subscribers.get(topic, [])).  The iterator *)
(* is over the registry's own set when the topic is a key.                 *)
DispIter(d) ==
    /\ disp[d].pc = "dispatch"
    /\ ~use_multicast
    /\ disp' = [disp EXCEPT ![d].pc = "next",
                            ![d].live = (disp[d].topic \in DOMAIN subscribers),
                            ![d].iter_set = SubscribersOf(disp[d].topic),
                            ![d].remaining = SubscribersOf(disp[d].topic)]
    /\ UNCHANGED <<cfgVars, subVars, sent, sendCalls, coap_client_server>>

(* line 216: the for loop asks the iterator for the next address.  A set   *)
(* that grew since the iterator was made raises RuntimeError ("Set changed *)
(* size during iteration"), which is no IOError and leaves send_event; an  *)
(* exhausted iterator ends the loop and line 219 returns True.             *)
DispNext(d) ==
    /\ disp[d].pc = "next"
    /\ IF disp[d].live /\ subscribers[disp[d].topic] # disp[d].iter_set
       THEN disp' = [disp EXCEPT ![d].pc = "done", ![d].error = "RuntimeError",
                                 ![d].ret = "raised"]
       ELSE IF disp[d].remaining = {}
       THEN disp' = [disp EXCEPT ![d].pc = "done", ![d].ret = "True"]
       ELSE \E a \in disp[d].remaining :
              disp' = [disp EXCEPT ![d].pc = "sendto", ![d].address = a,
                                   ![d].remaining = @ \ {a}]
    /\ UNCHANGED <<cfgVars, subVars, sent, sendCalls, coap_client_server>>

(* lines 163-171, __sendto: the destination is stored in the shared client *)
DispSetServer(d) ==
    /\ disp[d].pc = "sendto"
    /\ coap_client_server' = ServerFor(disp[d].address)
    /\ disp' = [disp EXCEPT ![d].pc = "put"]
    /\ UNCHANGED <<cfgVars, subVars, sent, sendCalls>>

(* the IOError swallowed: the loop goes on and the call returns True *)
AfterPut_Swallow(r, accepted) ==
    IF use_multicast THEN [r EXCEPT !.pc = "done", !.ret = "True"]
    ELSE [r EXCEPT !.pc = "next"]

(* the multicast send issued a second time *)
AfterPut_SendTwice(r, accepted) ==
    IF ~accepted THEN [r EXCEPT !.pc = "done", !.error = "IOError", !.ret = "False"]
    ELSE IF use_multicast
         THEN IF r.live THEN [r EXCEPT !.pc = "done", !.ret = "True"]
              ELSE [r EXCEPT !.pc = "sendto", !.live = TRUE]
    ELSE [r EXCEPT !.pc = "next"]

(* lines 212/217 to 223: what send_event does once put has returned or     *)
(* raised IOError                                                          *)
AfterPut(r, accepted) ==
    IF ~accepted THEN [r EXCEPT !.pc = "done", !.error = "IOError", !.ret = "False"]
    ELSE IF use_multicast THEN [r EXCEPT !.pc = "done", !.ret = "True"]
    ELSE [r EXCEPT !.pc = "next"]

(* line 174: self.coap_client.put(path, payload, callback); the request    *)
(* goes to the client's current destination                                *)
DispPut(d) ==
    /\ disp[d].pc = "put"
    /\ \E accepted \in BOOLEAN :
         /\ sent' = [sent EXCEPT ![d] =
                       Append(@, [dest |-> coap_client_server,
                                  path |-> PathOf(disp[d].topic),
                                  payload |-> disp[d].msg,
                                  accepted |-> accepted])]
         /\ disp' = [disp EXCEPT ![d] = AfterPut(@, accepted)]
    /\ UNCHANGED <<cfgVars, subVars, sendCalls, coap_client_server>>

(* the caller has the result *)
DispReturn(d) ==
    /\ disp[d].pc = "done"
    /\ disp' = [disp EXCEPT ![d].pc = "idle"]
    /\ UNCHANGED <<cfgVars, subVars, sent, sendCalls, coap_client_server>>

(* ------------------------------ on_start ------------------------------- *)
CurrentPub == publishers.list[start.i]

(* lines 110-114: the parameter dict is replaced by the built RideD; with  *)
(* self.rided None on_start goes straight to line 150                      *)
StartBuild ==
    /\ start.pc = "init"
    /\ IF rided = "None"
       THEN /\ start' = [start EXCEPT !.pc = "started"]
            /\ UNCHANGED rided
       ELSE /\ rided' = "Ready"
            /\ start' = [start EXCEPT !.pc = "timer"]
    /\ UNCHANGED <<use_multicast, subVars, dispVars, auxVars,
                   publishers, timer_scheduled,
                   installed_rules, publisher_routes, tried, failed>>

(* lines 117-122: timed_call(..., repeat=True), then assert self.publishers *)
(* is not None                                                             *)
StartTimer ==
    /\ start.pc = "timer"
    /\ timer_scheduled' = TRUE
    /\ start' = [start EXCEPT !.pc = IF publishers.given THEN "loop" ELSE "raised"]
    /\ UNCHANGED <<use_multicast, rided, subVars, dispVars, auxVars,
                   publishers, installed_rules,
                   publisher_routes, tried, failed>>

(* the try around the whole loop: the first failure ends the installation *)
Skip_Abort(r) == [r EXCEPT !.pc = "started", !.rules_left = 0]

(* lines 136-137: the handler of the try inside the loop; the for loop     *)
(* goes on with the next publisher                                         *)
Skip(r) == [r EXCEPT !.pc = "loop", !.i = @ + 1, !.rules_left = 0]

(* line 131: route = topology_manager.get_path(pub, dpid) *)
StartGetPath ==
    /\ start.pc = "loop"
    /\ start.i <= Len(publishers.list)
    /\ tried' = tried \cup {CurrentPub}
    /\ \E ok \in BOOLEAN :
         IF ok THEN /\ start' = [start EXCEPT !.pc = "build_rules"]
                    /\ UNCHANGED failed
         ELSE /\ start' = Skip(start)
              /\ failed' = failed \cup {CurrentPub}
    /\ UNCHANGED <<use_multicast, rided, subVars, dispVars, auxVars,
                   publishers, timer_scheduled,
                   installed_rules, publisher_routes>>

(* line 132: flow_rules = build_flow_rules_from_path(route) *)
StartBuildRules ==
    /\ start.pc = "build_rules"
    /\ \/ \E n \in 0..MaxRules :
            /\ start' = [start EXCEPT !.pc = "install", !.rules_left = n]
            /\ UNCHANGED failed
       \/ /\ start' = Skip(start)
          /\ failed' = failed \cup {CurrentPub}
    /\ UNCHANGED <<use_multicast, rided, subVars, dispVars, auxVars,
                   publishers, timer_scheduled,
                   installed_rules, publisher_routes, tried>>

(* lines 133-134: install_flow_rule(r) for the next rule *)
StartInstallRule ==
    /\ start.pc = "install"
    /\ start.rules_left > 0
    /\ \E ok \in BOOLEAN :
         IF ok THEN /\ installed_rules' = [installed_rules EXCEPT ![CurrentPub] = @ + 1]
                    /\ start' = [start EXCEPT !.rules_left = @ - 1]
                    /\ UNCHANGED failed
         ELSE /\ start' = Skip(start)
              /\ failed' = failed \cup {CurrentPub}
              /\ UNCHANGED installed_rules
    /\ UNCHANGED <<use_multicast, rided, subVars, dispVars, auxVars,
                   publishers, timer_scheduled,
                   publisher_routes, tried>>

(* the route registered while rules are still to be installed *)
StartSetRoute_Early ==
    /\ start.pc = "install"
    /\ publisher_routes' = publisher_routes \cup {CurrentPub}
    /\ start' = [start EXCEPT !.pc = "loop", !.i = @ + 1]
    /\ UNCHANGED <<use_multicast, rided, subVars, dispVars, auxVars,
                   publishers, timer_scheduled,
                   installed_rules, tried, failed>>

(* line 135: rided.set_publisher_route(pub, route), after the last rule *)
StartSetRoute ==
    /\ start.pc = "install"
    /\ start.rules_left = 0
    /\ \E ok \in BOOLEAN :
         IF ok THEN /\ publisher_routes' = publisher_routes \cup {CurrentPub}
                    /\ start' = [start EXCEPT !.pc = "loop", !.i = @ + 1]
                    /\ UNCHANGED failed
         ELSE /\ start' = Skip(start)
              /\ failed' = failed \cup {CurrentPub}
              /\ UNCHANGED publisher_routes
    /\ UNCHANGED <<use_multicast, rided, subVars, dispVars, auxVars,
                   publishers, timer_scheduled,
                   installed_rules, tried>>

(* line 126 exhausted, line 150: super().on_start() *)
StartFinish ==
    /\ start.pc = "loop"
    /\ start.i > Len(publishers.list)
    /\ start' = [start EXCEPT !.pc = "started"]
    /\ UNCHANGED <<use_multicast, rided, subVars, dispVars, auxVars,
                   publishers, timer_scheduled,
                   installed_rules, publisher_routes, tried, failed>>

(* ------------------------- __maintain_topology ------------------------- *)
(* line 117: timed_call(maintenance_interval, ..., repeat=True): once the  *)
(* timer is set, every interval that goes by fires it once                 *)
Elapse ==
    /\ timer_scheduled
    /\ elapsed < MaxTicks
    /\ elapsed' = elapsed + 1
    /\ pending' = pending + 1
    /\ UNCHANGED <<use_multicast, rided, subVars, dispVars, startVars, updating,
                   refreshes, events, notified, coap_rejected, srvVars>>

(* lines 95-102: a firing runs __maintain_topology, which calls            *)
(* self.rided.update()                                                     *)
MaintainBegin ==
    /\ pending > 0
    /\ ~updating
    /\ pending' = pending - 1
    /\ updating' = TRUE
    /\ UNCHANGED <<use_multicast, rided, subVars, dispVars, startVars, elapsed,
                   refreshes, events, notified, coap_rejected, srvVars>>

(* the refresh asked for twice in one tick *)
Refreshed_Twice(log, outcome) == Append(Append(log, outcome), outcome)

(* line 102: the one update() call of a tick, as it ended *)
Refreshed(log, outcome) == Append(log, outcome)

(* a tick that raised takes the repeating timer down with it *)
TimerAfterTick_Cancel(outcome) == outcome = "ok"

(* lines 102, 117: __maintain_topology does not set the timer again and    *)
(* does not cancel it; the timer repeats whatever update() did             *)
TimerAfterTick(outcome) == TRUE

(* line 102: update() returns, or raises out of __maintain_topology *)
MaintainEnd ==
    /\ updating
    /\ updating' = FALSE
    /\ \E outcome \in {"ok", "raised"} :
         /\ refreshes' = Refreshed(refreshes, outcome)
         /\ timer_scheduled' = TimerAfterTick(outcome)
    /\ UNCHANGED <<use_multicast, rided, subVars, dispVars, publishers, start,
                   installed_rules, publisher_routes, tried, failed, elapsed, pending,
                   events, notified, coap_rejected, srvVars>>

(* -------------------- __process_coap_subscription ---------------------- *)
(* the endpoint without its check on the topic *)
TopicAccepted_Any(topic) == TRUE

(* line 305: assert topic == SEISMIC_ALERT_TOPIC *)
TopicAccepted(topic) == topic = SEISMIC_ALERT_TOPIC

(* lines 292-310: a PUT on the subscription endpoint: host from the        *)
(* request's source, topic from its payload; the assert of 305 ends the    *)
(* request with AssertionError, otherwise process_subscription is called   *)
CoapRequest(t) ==
    /\ sub[t].pc = "idle"
    /\ subCalls < MaxSubCalls
    /\ \E topic \in Topics, host \in Hosts :
         IF TopicAccepted(topic)
         THEN /\ sub' = [sub EXCEPT ![t] = [pc |-> "lock", topic |-> topic,
                                            host |-> host, changed |-> FALSE,
                                            ret |-> "none"]]
              /\ requested' = requested \cup {<<topic, host>>}
              /\ UNCHANGED coap_rejected
         ELSE /\ sub' = [sub EXCEPT ![t] = [pc |-> "done", topic |-> topic,
                                            host |-> host, changed |-> FALSE,
                                            ret |-> "raised"]]
              /\ coap_rejected' = coap_rejected \cup {<<topic, host>>}
              /\ UNCHANGED requested
    /\ subCalls' = subCalls + 1
    /\ UNCHANGED <<use_multicast, rided, startVars, dispVars, subscribers,
                   subscriber_lock, validated, rided_subscribers, elapsed, pending,
                   updating, refreshes, events, notified, srvVars>>

(* ------------------------------ on_event ------------------------------- *)
(* event.source: a path that names the publishing host, or one that does not *)
Sources == {<<"coap", h>> : h \in Hosts} \cup {<<"nohost">>}

(* the events on_event can be handed *)
Events == [topic : {SEISMIC_PICK_TOPIC, OtherTopic}, is_local : BOOLEAN, source : Sources]

(* line 241: the host named by the source, None when it names none *)
get_hostname_from_path(source) ==
    IF Len(source) = 2 THEN source[2] ELSE NoAddress

(* the notification made whether or not the event is local *)
Notification_AlsoLocal(event) ==
    IF /\ event.topic = SEISMIC_PICK_TOPIC
       /\ rided = "Ready"
       /\ get_hostname_from_path(event.source) # NoAddress
    THEN <<get_hostname_from_path(event.source)>>
    ELSE << >>

(* lines 236-244: what on_event passes to rided.notify_publication: the    *)
(* assert on the topic (236) ends the call; None and a local event skip    *)
(* the branch (238); a source without a host fails the assert of 242; the  *)
(* dict of a provider not yet built has no notify_publication (244)        *)
Notification(event) ==
    IF /\ event.topic = SEISMIC_PICK_TOPIC
       /\ rided = "Ready"
       /\ ~event.is_local
       /\ get_hostname_from_path(event.source) # NoAddress
    THEN <<get_hostname_from_path(event.source)>>
    ELSE << >>

(* lines 225-244: on_event(event, topic) *)
OnEventOf(event) ==
    /\ Len(events) < MaxEvents
    /\ events' = Append(events, event)
    /\ notified' = notified \o Notification(event)
    /\ UNCHANGED <<use_multicast, rided, subVars, dispVars, startVars, elapsed, pending,
                   updating, refreshes, coap_rejected, srvVars>>

OnEvent == \E event \in Events : OnEventOf(event)

(* the events the sink subscribed to (line 38) that come from another host *)
RemotePicks ==
    {event \in Events : /\ event.topic = SEISMIC_PICK_TOPIC
                        /\ ~event.is_local
                        /\ Len(event.source) = 2}

(* ---------------------------- SeismicServer ---------------------------- *)
sinkVars == <<use_multicast, rided, subVars, dispVars, startVars, elapsed, pending,
              updating, refreshes, events, notified, coap_rejected>>

(* lines 83-100: handle_read: a datagram is read; json.loads accepts it and *)
(* the pick is appended to self.events_rcvd, or raises ValueError and the   *)
(* datagram is only reported                                                *)
HandleRead ==
    /\ datagrams < MaxPicks
    /\ datagrams' = datagrams + 1
    /\ \E ok \in BOOLEAN :
         IF ok
         THEN /\ events_rcvd' = Append(events_rcvd, datagrams')
              /\ parsed' = parsed \cup {datagrams'}
         ELSE UNCHANGED <<events_rcvd, parsed>>
    /\ UNCHANGED <<sinkVars, aggregates, sender, flushes>>

(* lines 60, 81: the Timer runs out and its thread enters send_events *)
TimerFires ==
    /\ sender = "timer"
    /\ flushes < MaxFlushes
    /\ flushes' = flushes + 1
    /\ sender' = "test"
    /\ UNCHANGED <<sinkVars, events_rcvd, datagrams, parsed, aggregates>>

(* line 72: if len(self.events_rcvd) > 0 *)
SendTest ==
    /\ sender = "test"
    /\ sender' = IF Len(events_rcvd) > 0 THEN "send" ELSE "schedule"
    /\ UNCHANGED <<sinkVars, events_rcvd, datagrams, parsed, aggregates, flushes>>

(* lines 73-77: json.dumps writes out the list as it is now and sendto      *)
(* sends it; a socket error raised by sendto ends the timer thread          *)
SendAggregate ==
    /\ sender = "send"
    /\ \E ok \in BOOLEAN :
         IF ok
         THEN /\ aggregates' = Append(aggregates, events_rcvd)
              /\ sender' = "reset"
         ELSE /\ sender' = "dead"
              /\ UNCHANGED aggregates
    /\ UNCHANGED <<sinkVars, events_rcvd, datagrams, parsed, flushes>>

(* line 78: self.events_rcvd = [] *)
ResetBuffer ==
    /\ sender = "reset"
    /\ events_rcvd' = << >>
    /\ sender' = "schedule"
    /\ UNCHANGED <<sinkVars, datagrams, parsed, aggregates, flushes>>

(* line 81: Timer(self.config.delay, self.send_events).start() *)
Reschedule ==
    /\ sender = "schedule"
    /\ sender' = "timer"
    /\ UNCHANGED <<sinkVars, events_rcvd, datagrams, parsed, aggregates, flushes>>

(* ---------------------------- specification ---------------------------- *)
InitSub ==
    /\ subscribers = << >>
    /\ subscriber_lock = NoThread
    /\ sub = [t \in SubThreads |-> IdleSub]
    /\ subCalls = 0
    /\ requested = {}
    /\ validated = {}
    /\ rided_subscribers = << >>

(* line 88: the client starts with the dummy destination (addresses[0], port) *)
InitDisp ==
    /\ disp = [d \in Dispatchers |-> IdleDisp]
    /\ sent = [d \in Dispatchers |-> << >>]
    /\ sendCalls = 0
    /\ coap_client_server = <<(<<"mcast", 1>>), port>>

(* seismic_server.py lines 50-60: the buffer is empty and the first timer  *)
(* for send_events is running                                              *)
InitServer ==
    /\ events_rcvd = << >>
    /\ datagrams = 0
    /\ parsed = {}
    /\ aggregates = << >>
    /\ sender = "timer"
    /\ flushes = 0

(* no interval has gone by, no event and no request has come *)
InitAux ==
    /\ elapsed = 0
    /\ pending = 0
    /\ updating = FALSE
    /\ refreshes = << >>
    /\ events = << >>
    /\ notified = << >>
    /\ coap_rejected = {}
    /\ InitServer

(* line 82: self.publishers is None (the default) or the configured list *)
InitStart ==
    /\ publishers \in {[given |-> FALSE, list |-> << >>],
                       [given |-> TRUE, list |-> [k \in 1..NumPublishers |-> k]]}
    /\ start = [pc |-> "init", i |-> 1, rules_left |-> 0]
    /\ timer_scheduled = FALSE
    /\ installed_rules = [p \in PublisherIds |-> 0]
    /\ publisher_routes = {}
    /\ tried = {}
    /\ failed = {}

(* lines 54-92: the sink as __init__ leaves it (BUILD_RIDED_IN_INIT False) *)
Init ==
    /\ use_multicast \in BOOLEAN
    /\ rided = (IF use_multicast THEN "Configured" ELSE "None")
    /\ InitSub
    /\ InitDisp
    /\ InitStart
    /\ InitAux

(* the sink while requests arrive: before on_start has run (self.rided is  *)
(* None or the parameter dict) or after it has (None or the built RideD)   *)
InitRunning ==
    /\ use_multicast \in BOOLEAN
    /\ rided \in (IF use_multicast THEN {"Configured", "Ready"} ELSE {"None"})
    /\ InitSub
    /\ InitDisp
    /\ InitAux
    /\ publishers = [given |-> TRUE, list |-> [k \in 1..NumPublishers |-> k]]
    /\ start = [pc |-> (IF rided = "Configured" THEN "init" ELSE "started"),
                i |-> 1, rules_left |-> 0]
    /\ timer_scheduled = (rided = "Ready")
    /\ installed_rules = [p \in PublisherIds |-> 0]
    /\ publisher_routes = {}
    /\ tried = {}
    /\ failed = {}

SubStep(t) ==
    \/ SubCall(t)
    \/ SubAcquire(t)
    \/ SubSetDefault(t)
    \/ SubAdd(t)
    \/ SubCheck(t)
    \/ SubResolve(t)
    \/ SubPath(t)
    \/ SubAcquire2(t)
    \/ SubAddSubscriber(t)
    \/ SubReturn(t)

DispStep(d) ==
    \/ SendCall(d)
    \/ DispLookup(d)
    \/ DispIter(d)
    \/ DispNext(d)
    \/ DispSetServer(d)
    \/ DispPut(d)
    \/ DispReturn(d)

(* the subscription handler under concurrent registration requests *)
NextSub == \E t \in SubThreads : SubStep(t)

SpecSub == InitRunning /\ [][NextSub]_vars

(* the dispatcher thread beside one registration thread *)
NextSend ==
    \/ SubStep(1)
    \/ DispStep("w1")

SpecSend == InitRunning /\ [][NextSend]_vars

StartStep ==
    \/ StartBuild
    \/ StartTimer
    \/ StartGetPath
    \/ StartBuildRules
    \/ StartInstallRule
    \/ StartSetRoute
    \/ StartFinish

(* on_start alone, from the constructed sink *)
SpecStart == Init /\ [][StartStep]_vars

MaintStep ==
    \/ Elapse
    \/ MaintainBegin
    \/ MaintainEnd

(* on_start and the maintenance timer it sets *)
NextMaint ==
    \/ StartStep
    \/ MaintStep

SpecMaint == Init /\ [][NextMaint]_vars

(* a request that came through the CoAP endpoint, and the call it makes *)
CoapStep(t) ==
    \/ CoapRequest(t)
    \/ SubAcquire(t)
    \/ SubSetDefault(t)
    \/ SubAdd(t)
    \/ SubCheck(t)
    \/ SubResolve(t)
    \/ SubPath(t)
    \/ SubAcquire2(t)
    \/ SubAddSubscriber(t)
    \/ SubReturn(t)

NextCoap == \E t \in SubThreads : CoapStep(t)

(* subscriptions arriving through the CoAP endpoint only *)
SpecCoap == InitRunning /\ [][NextCoap]_vars

(* the aggregating server: the asyncore loop and the timer thread *)
NextServer ==
    \/ HandleRead
    \/ TimerFires
    \/ SendTest
    \/ SendAggregate
    \/ ResetBuffer
    \/ Reschedule

SpecServer == InitRunning /\ [][NextServer]_vars

(* on_event alone, on a sink in any of its provider states *)
SpecEvent == InitRunning /\ [][OnEvent]_vars

(* send_event calls running at once on the one sink *)
NextSend2 == \E d \in Dispatchers : DispStep(d)

SpecSend2 == InitRunning /\ [][NextSend2]_vars

(* a multicast dispatch whose provider lookup and send fall inside a       *)
(* maintenance refresh: the ticks as they come, and the dispatcher taking  *)
(* its lookup and send steps only while rided.update() is running          *)
NextRefreshRace ==
    \/ MaintStep
    \/ SendCall("w1")
    \/ updating /\ DispLookup("w1")
    \/ updating /\ DispSetServer("w1")
    \/ updating /\ DispPut("w1")
    \/ DispReturn("w1")

SpecRefreshRace == InitRunning /\ [][NextRefreshRace]_vars

(* no call of the kind has been made yet *)
FreshStart == start.pc = "init" \/ (start.pc = "started" /\ tried = {})
FreshDisp == sendCalls = 0
FreshMaint == elapsed = 0
FreshEvent == events = << >>

(* every operation of the sink: the registration thread, running together  *)
(* with one other kind of operation: a dispatch, on_start, the maintenance *)
(* ticks, or publication events                                            *)
NextAll ==
    \/ SubStep(1)
    \/ FreshStart /\ FreshMaint /\ FreshEvent /\ DispStep("w1")
    \/ FreshDisp /\ FreshMaint /\ FreshEvent /\ StartStep
    \/ FreshDisp /\ FreshStart /\ FreshEvent /\ MaintStep
    \/ FreshDisp /\ FreshStart /\ FreshMaint /\ \E event \in RemotePicks : OnEventOf(event)

(* the running sink of InitRunning, configured with a single publisher *)
InitAll ==
    /\ use_multicast \in BOOLEAN
    /\ rided \in (IF use_multicast THEN {"Configured", "Ready"} ELSE {"None"})
    /\ InitSub
    /\ InitDisp
    /\ InitAux
    /\ publishers = [given |-> TRUE, list |-> <<1>>]
    /\ start = [pc |-> (IF rided = "Configured" THEN "init" ELSE "started"),
                i |-> 1, rules_left |-> 0]
    /\ timer_scheduled = (rided = "Ready")
    /\ installed_rules = [p \in PublisherIds |-> 0]
    /\ publisher_routes = {}
    /\ tried = {}
    /\ failed = {}

SpecAll == InitAll /\ [][NextAll]_vars

Next ==
    \/ \E t \in SubThreads : SubStep(t)
    \/ \E t \in SubThreads : CoapRequest(t)
    \/ \E d \in Dispatchers : DispStep(d)
    \/ StartStep
    \/ MaintStep
    \/ OnEvent
    \/ NextServer

Spec == Init /\ [][Next]_vars

(* ------------------------------- claims -------------------------------- *)
InProgress(t) == sub[t].pc \notin {"idle", "done"}
BeforeAdd(t) == sub[t].pc \in {"lock", "setdefault", "add"}
SendFailed(d) == \E i \in 1..Len(sent[d]) : ~sent[d][i].accepted
AllAccepted(d) == \A i \in 1..Len(sent[d]) : sent[d][i].accepted

(* C1: with the provider built, a process_subscription call whose host     *)
(* resolution or path computation failed returns False and has not changed *)
(* the registry, so that every address in the registry, once the call that *)
(* brought it has ended, has passed the reachability validation.           *)
C1_FailedSubscriptionLeavesRegistry ==
    rided = "Ready" =>
        /\ \A t \in SubThreads :
             (sub[t].pc = "done" /\ sub[t].ret = "False") => ~sub[t].changed
        /\ \A topic \in DOMAIN subscribers : \A h \in subscribers[topic] :
             \/ h \in validated
             \/ \E t \in SubThreads :
                  InProgress(t) /\ sub[t].topic = topic /\ sub[t].host = h

(* C2: in unicast mode, when a send of the fan-out failed with an IOError, *)
(* a send was still issued to every address the registry held for the      *)
(* topic.                                                                  *)
C2_FailureDoesNotAbortFanOut ==
    \A d \in Dispatchers :
        (~use_multicast /\ disp[d].pc = "done" /\ SendFailed(d)) =>
            \A a \in disp[d].iter_set :
                \E i \in 1..Len(sent[d]) : sent[d][i].dest = <<a, port>>

(* C3: in multicast mode, when the provider gives no best multicast        *)
(* address for the topic (it answers None or raises), send_event returns   *)
(* False, raises nothing and issues no send.                               *)
C3_NoAddressReturnsFalse ==
    \A d \in Dispatchers :
        (use_multicast /\ rided = "Ready" /\ disp[d].pc = "done"
           /\ disp[d].lookup \notin McastAddresses) =>
            (disp[d].ret = "False" /\ sent[d] = << >>)

(* C4, as stated: send_event returns True if and only if every send it     *)
(* issued was accepted by the transport.                                   *)
C4_TrueIffAllAccepted ==
    \A d \in Dispatchers :
        disp[d].pc = "done" => (disp[d].ret = "True" <=> AllAccepted(d))

(* C4, amended: a True result means every send issued was accepted; a send *)
(* that raised IOError makes the call return False and is the last send of *)
(* the call (it is not attempted again, and nothing is sent after it); and *)
(* a call all of whose sends were accepted returns True unless the address *)
(* lookup raised or answered nothing usable, or the registry set changed   *)
(* under the unicast iteration.                                            *)
C4_ReturnValue ==
    \A d \in Dispatchers :
        disp[d].pc = "done" =>
            /\ disp[d].ret = "True" => AllAccepted(d)
            /\ SendFailed(d) => disp[d].ret = "False"
            /\ \A i \in 1..Len(sent[d]) : ~sent[d][i].accepted => i = Len(sent[d])
            /\ (AllAccepted(d) /\ disp[d].ret # "True") =>
                  \/ use_multicast /\ disp[d].lookup \notin McastAddresses
                                   /\ sent[d] = << >>
                  \/ ~use_multicast /\ disp[d].ret = "raised"
                                    /\ subscribers[disp[d].topic] # disp[d].iter_set

C4_Witness ==
    \E d \in Dispatchers :
        /\ disp[d].pc = "done"
        /\ disp[d].ret = "False"
        /\ Len(sent[d]) = 2
        /\ sent[d][1].accepted
        /\ ~sent[d][2].accepted

(* C5: in unicast mode, a send_event call for topic T that meets no        *)
(* transport failure, the registry set S of T staying as it is during the  *)
(* call, issues exactly |S| sends: one to (a, port) for each a in S, none  *)
(* elsewhere, all with the one encoded payload and the path /events/T.     *)
C5_UnicastFanOut ==
    \A d \in Dispatchers :
        (~use_multicast /\ disp[d].pc = "done" /\ AllAccepted(d)
           /\ disp[d].error # "RuntimeError") =>
            /\ disp[d].ret = "True"
            /\ Len(sent[d]) = Cardinality(disp[d].iter_set)
            /\ \A a \in disp[d].iter_set :
                 Cardinality({i \in 1..Len(sent[d]) : sent[d][i].dest = <<a, port>>}) = 1
            /\ \A i \in 1..Len(sent[d]) :
                 /\ \E a \in disp[d].iter_set : sent[d][i].dest = <<a, port>>
                 /\ sent[d][i].payload = disp[d].msg
                 /\ sent[d][i].path = <<"events", disp[d].topic>>
            /\ disp[d].iter_set \subseteq SubscribersOf(disp[d].topic)

C5_Witness ==
    \E d \in Dispatchers :
        /\ ~use_multicast
        /\ disp[d].pc = "done"
        /\ disp[d].ret = "True"
        /\ Cardinality(disp[d].iter_set) = 2
        /\ Len(sent[d]) = 2

(* C6: in multicast mode, once the provider has given a best multicast     *)
(* address for the topic, send_event issues one send and no more, to that  *)
(* address and the configured port, however many subscribers the registry  *)
(* holds.                                                                  *)
C6_MulticastOneSend ==
    \A d \in Dispatchers :
        (use_multicast /\ disp[d].lookup \in McastAddresses) =>
            /\ Len(sent[d]) <= 1
            /\ \A i \in 1..Len(sent[d]) : sent[d][i].dest = <<disp[d].lookup, port>>
            /\ disp[d].pc = "done" => Len(sent[d]) = 1

C6_Witness ==
    \E d \in Dispatchers :
        /\ use_multicast
        /\ disp[d].pc = "done"
        /\ disp[d].lookup \in McastAddresses
        /\ Len(sent[d]) = 1
        /\ Cardinality(SubscribersOf(disp[d].topic)) = 2

(* C7: whatever the interleaving of the process_subscription calls, no     *)
(* insert is lost and nothing else is stored: the registry holds under a   *)
(* topic exactly the addresses of the calls made for it, save those of     *)
(* calls that have not reached the insert yet; so when N calls for N       *)
(* distinct addresses have all returned the topic has exactly those N.     *)
C7_NoLostUpdate ==
    /\ \A topic \in DOMAIN subscribers : \A h \in subscribers[topic] :
         <<topic, h>> \in requested
    /\ \A q \in requested :
         \/ q[2] \in SubscribersOf(q[1])
         \/ \E t \in SubThreads :
              BeforeAdd(t) /\ sub[t].topic = q[1] /\ sub[t].host = q[2]

C7_Witness ==
    \E t1, t2 \in SubThreads :
        /\ sub[t1].pc = "done" /\ sub[t1].ret = "True"
        /\ sub[t2].pc = "done" /\ sub[t2].ret = "True"
        /\ sub[t1].topic = sub[t2].topic
        /\ sub[t1].host # sub[t2].host
        /\ rided = "Ready"
        /\ subscribers[sub[t1].topic] = {sub[t1].host, sub[t2].host}

(* C8: in every state check_available is true of a topic exactly when the  *)
(* topic is in topics_to_sink and the registry holds at least one          *)
(* subscriber for it.                                                      *)
C8_AvailableIffSubscribed ==
    \A topic \in Topics :
        check_available(topic) <=>
            (topic \in topics_to_sink /\ SubscribersOf(topic) # {})

(* C9: with self.rided None, process_subscription makes no host resolution *)
(* and no path computation, tells no provider, always ends with the host   *)
(* in the registry under the topic, and returns True.                      *)
C9_UnicastSubscription ==
    rided = "None" =>
        /\ validated = {}
        /\ rided_subscribers = << >>
        /\ \A t \in SubThreads :
             /\ sub[t].pc \notin {"resolve", "path", "lock2", "add_subscriber"}
             /\ sub[t].pc = "done" =>
                  (sub[t].ret = "True" /\ sub[t].host \in SubscribersOf(sub[t].topic))

C9_Witness ==
    /\ rided = "None"
    /\ \E t \in SubThreads : sub[t].pc = "done" /\ sub[t].changed

(* C10: a step failing for one publisher during the route installation is  *)
(* caught and ends that publisher's turn only: on_start never raises out   *)
(* of the loop, every configured publisher has its route computation       *)
(* started, and every publisher none of whose steps failed has its route   *)
(* registered with the provider.                                           *)
C10_InstallerSkipsAndContinues ==
    publishers.given =>
        /\ start.pc # "raised"
        /\ \A k \in 1..Len(publishers.list) :
             k < start.i =>
                 /\ publishers.list[k] \in tried
                 /\ publishers.list[k] \notin failed
                      => publishers.list[k] \in publisher_routes
        /\ (start.pc = "started" /\ rided = "Ready") =>
              start.i = Len(publishers.list) + 1

C10_Witness ==
    /\ start.pc = "started"
    /\ publishers.given
    /\ publishers.list[1] \in failed
    /\ publishers.list[2] \in publisher_routes
    /\ publishers.list[2] \notin failed

RefreshCalls == Len(refreshes) + (IF updating THEN 1 ELSE 0)

(* C11: in multicast mode, once on_start has set the timer, every          *)
(* maintenance interval that goes by brings exactly one rided.update()     *)
(* call: after K intervals K firings have happened, each of which has made *)
(* or is about to make one call, none left out and none made twice; in     *)
(* unicast mode no timer is set and no refresh is ever made.               *)
C11_OneRefreshPerInterval ==
    /\ RefreshCalls + pending = elapsed
    /\ (pending = 0 /\ ~updating) => Len(refreshes) = elapsed
    /\ elapsed > 0 => (use_multicast /\ rided = "Ready" /\ start.pc # "init")
    /\ ~use_multicast => (~timer_scheduled /\ elapsed = 0 /\ RefreshCalls = 0)

C11_Witness ==
    /\ use_multicast
    /\ start.pc = "started"
    /\ elapsed = MaxTicks
    /\ pending = 0
    /\ ~updating
    /\ Len(refreshes) = MaxTicks

Forwarded(event) ==
    /\ event.topic = SEISMIC_PICK_TOPIC
    /\ ~event.is_local
    /\ Len(event.source) = 2

RECURSIVE ExpectedNotifications(_)
ExpectedNotifications(evs) ==
    IF evs = << >> THEN << >>
    ELSE ExpectedNotifications(SubSeq(evs, 1, Len(evs) - 1))
             \o (IF Forwarded(evs[Len(evs)]) THEN <<evs[Len(evs)].source[2]>> ELSE << >>)

(* C13: with the provider built, on_event has called notify_publication    *)
(* exactly once, with the host named by event.source, for every non-local  *)
(* pick event it received, in the order received, and for no local event;  *)
(* with multicast disabled it has made no notification at all.             *)
C13_NotifyOncePerRemoteEvent ==
    /\ rided = "Ready" => notified = ExpectedNotifications(events)
    /\ rided = "None" => notified = << >>
    /\ \A i \in 1..Len(notified) :
         \E j \in 1..Len(events) :
             ~events[j].is_local /\ events[j].source = <<"coap", notified[i]>>

C13_Witness ==
    /\ rided = "Ready"
    /\ Len(events) = MaxEvents
    /\ \E i, j \in 1..Len(events) :
         /\ events[i].is_local
         /\ events[i].topic = SEISMIC_PICK_TOPIC
         /\ Forwarded(events[j])
    /\ Len(notified) = 1

(* C14: a subscription request on the CoAP endpoint whose payload topic is *)
(* not the alert topic ends in a hard failure before anything is done with *)
(* it: it never reaches process_subscription, so the registry holds no     *)
(* entry under its topic and the provider got no subscriber from it.       *)
C14_OtherTopicRejected ==
    /\ \A t \in SubThreads :
         (sub[t].pc # "idle" /\ sub[t].topic # SEISMIC_ALERT_TOPIC) =>
             sub[t].pc = "done" /\ sub[t].ret = "raised" /\ ~sub[t].changed
    /\ \A q \in coap_rejected : q \notin requested /\ q[1] \notin DOMAIN subscribers
    /\ DOMAIN subscribers \subseteq {SEISMIC_ALERT_TOPIC}
    /\ \A i \in 1..Len(rided_subscribers) :
         \E h \in Hosts :
             /\ NodeOf(h) = rided_subscribers[i].node
             /\ <<SEISMIC_ALERT_TOPIC, h>> \in requested

C14_Witness ==
    /\ coap_rejected # {}
    /\ subCalls = MaxSubCalls
    /\ subscribers # << >>
    /\ \E t \in SubThreads :
         sub[t].pc = "done" /\ sub[t].topic = OtherTopic /\ sub[t].ret = "raised"

(* C15: inserting into the registry is idempotent: when process_subscription *)
(* runs its insert (line 258) for a (topic, host) pair the registry already  *)
(* holds, neither of its two steps changes the registry; the pair is there   *)
(* once, the registry being a set per topic.                                 *)
C15_InsertIdempotent ==
    [][\A t \in SubThreads :
          (/\ sub[t].pc \in {"setdefault", "add"}
           /\ sub'[t].pc # sub[t].pc
           /\ sub[t].topic \in DOMAIN subscribers
           /\ sub[t].host \in subscribers[sub[t].topic])
              => subscribers' = subscribers]_vars

C15_Witness ==
    \E t \in SubThreads :
        /\ sub[t].pc = "check"
        /\ ~sub[t].changed
        /\ sub[t].host \in SubscribersOf(sub[t].topic)
        /\ subCalls = MaxSubCalls

(* C16: the registry only grows: no step of any operation (subscription    *)
(* handling, dispatch, on_start's route installation, a maintenance tick,  *)
(* on_event) takes a topic key or an address out of it.                    *)
C16_RegistryOnlyGrows ==
    [][\A topic \in DOMAIN subscribers :
          /\ topic \in DOMAIN subscribers'
          /\ subscribers[topic] \subseteq subscribers'[topic]]_vars

C16_Witness ==
    /\ Cardinality(SubscribersOf(SEISMIC_ALERT_TOPIC)) = 2
    /\ disp["w1"].pc = "done"
    /\ Len(sent["w1"]) = 2

(* C17: a process_subscription call that succeeded has its address in the  *)
(* registry under the alert topic, whatever topic string it was given, so  *)
(* that the registry holds the address under the topic the provider has    *)
(* the subscriber under.                                                   *)
C17_StoredUnderAlertTopic ==
    \A t \in SubThreads :
        (sub[t].pc = "done" /\ sub[t].ret = "True") =>
            /\ sub[t].host \in SubscribersOf(SEISMIC_ALERT_TOPIC)
            /\ \A i \in 1..Len(rided_subscribers) :
                 rided_subscribers[i].node = NodeOf(sub[t].host) =>
                     sub[t].host \in SubscribersOf(rided_subscribers[i].topic)

(* C18: in multicast mode rided.add_subscriber is called only by a call    *)
(* whose host has passed both get_host_by_ip and get_path, with that host, *)
(* and exactly once by each process_subscription call that returns True; a *)
(* call whose validation failed returns False without having called it.    *)
C18_AddSubscriberAfterValidation ==
    [][/\ rided_subscribers' # rided_subscribers =>
            \E t \in SubThreads :
                /\ sub[t].pc = "add_subscriber"
                /\ sub[t].host \in validated
                /\ sub'[t].ret = "True"
                /\ rided_subscribers' =
                       Append(rided_subscribers,
                              [node |-> NodeOf(sub[t].host),
                               topic |-> SEISMIC_ALERT_TOPIC, by |-> t])
       /\ \A t \in SubThreads :
            /\ (rided = "Ready" /\ sub[t].ret # "True" /\ sub'[t].ret = "True")
                   => Len(rided_subscribers') = Len(rided_subscribers) + 1
            /\ (sub[t].ret # "False" /\ sub'[t].ret = "False")
                   => rided_subscribers' = rided_subscribers]_vars

C18_Witness ==
    /\ rided = "Ready"
    /\ Len(rided_subscribers) = 1
    /\ \E t, u \in SubThreads :
         /\ sub[t].pc = "done" /\ sub[t].ret = "True"
         /\ sub[u].pc = "done" /\ sub[u].ret = "False"
         /\ sub[u].host \notin validated

(* C19: at startup the route installation pass comes first, once for each  *)
(* configured publisher, and the maintenance timer is set only when that   *)
(* pass has ended; so no refresh is made before or during the pass.        *)
C19_InstallBeforeMaintenance ==
    publishers.given =>
        /\ timer_scheduled => start.pc = "started"
        /\ RefreshCalls + pending > 0 => start.pc = "started"
        /\ (start.pc = "started" /\ rided = "Ready") =>
               tried = {publishers.list[k] : k \in 1..Len(publishers.list)}

(* C20: self.rided is None (disabled), the parameter dict (configured) or  *)
(* the built RideD (ready); it is ready only once on_start has built it;   *)
(* and while it is only configured no operation takes it for the built     *)
(* provider: no call goes into the provider branch and fails on the dict,  *)
(* and the provider has been given no subscriber, publication or refresh.  *)
C20_ConfiguredNotTakenForReady ==
    /\ rided \in {"None", "Configured", "Ready"}
    /\ rided = "Ready" => start.pc # "init"
    /\ rided = "Configured" =>
         /\ \A t \in SubThreads : sub[t].ret # "raised"
         /\ \A d \in Dispatchers : disp[d].error # "AttributeError"
         /\ rided_subscribers = << >>
         /\ notified = << >>
         /\ RefreshCalls = 0

(* C21: nothing keeps the dispatcher off the provider while a maintenance  *)
(* refresh runs: whenever rided.update() is in progress and a multicast    *)
(* send_event stands before its best-address lookup, the lookup can be     *)
(* made, and a send standing before its transmission can transmit; so a    *)
(* dispatch can query the provider and send in the middle of a refresh.    *)
C21_RefreshDoesNotExcludeDispatch ==
    \A d \in Dispatchers :
        updating =>
            /\ (use_multicast /\ disp[d].pc = "dispatch") => ENABLED DispLookup(d)
            /\ disp[d].pc = "sendto" => ENABLED DispSetServer(d)
            /\ disp[d].pc = "put" => ENABLED DispPut(d)

C21_Witness ==
    /\ updating
    /\ rided = "Ready"
    /\ disp["w1"].pc = "done"
    /\ disp["w1"].lookup \in McastAddresses
    /\ Len(sent["w1"]) = 1
    /\ sent["w1"][1].dest = <<disp["w1"].lookup, port>>
    /\ sent["w1"][1].accepted

InInsert(t) == sub[t].pc \in {"setdefault", "add"}
InValidation(t) == sub[t].pc \in {"resolve", "path"}

(* C22: a process_subscription call is inside the registry insert of line  *)
(* 258 only while it holds the subscriber lock, so at most one call is     *)
(* inside an insert at a time; a call inside get_host_by_ip or get_path    *)
(* does not hold the lock, so two calls can be validating at once.         *)
C22_InsertUnderLock ==
    /\ \A t \in SubThreads :
         /\ InInsert(t) => subscriber_lock = t
         /\ sub[t].pc = "add_subscriber" => subscriber_lock = t
         /\ InValidation(t) => subscriber_lock # t
    /\ \A t, u \in SubThreads : (InInsert(t) /\ InInsert(u)) => t = u

C22_Witness ==
    \E t, u \in SubThreads :
        /\ t # u
        /\ InValidation(t)
        /\ InValidation(u)
        /\ sub[t].host # sub[u].host
        /\ subscriber_lock = NoThread

(* C23: every request __sendto issues goes to the address that very call   *)
(* was given: whatever other send_event calls do meanwhile, the last       *)
(* request a call has put out went to (address, port) of its own __sendto  *)
(* (the calls taken being those the provider gave an address).             *)
C23_SentToOwnAddress ==
    (\A e \in Dispatchers : disp[e].lookup # NoAddress) =>
        \A d \in Dispatchers :
            (sent[d] # << >> /\ disp[d].pc \in {"next", "done", "idle"}) =>
                sent[d][Len(sent[d])].dest = <<disp[d].address, port>>

InBuffer(p) == \E i \in 1..Len(events_rcvd) : events_rcvd[i] = p
TimesSent(p) ==
    Cardinality({<<i, j>> \in (1..Len(aggregates)) \X (1..MaxPicks) :
                    j <= Len(aggregates[i]) /\ aggregates[i][j] = p})

(* a pick that parsed waits in the buffer or has been sent once, both only *)
(* between the send and the reset                                          *)
PicksForwardedOnce ==
    \A p \in parsed :
        /\ InBuffer(p) \/ TimesSent(p) = 1
        /\ TimesSent(p) <= 1
        /\ (InBuffer(p) /\ TimesSent(p) = 1) => sender = "reset"

(* C24: in the aggregating server, however handle_read and the timer's     *)
(* send_events interleave, every pick that parsed is forwarded in exactly  *)
(* one aggregate, never lost by the reset of the buffer and never sent     *)
(* twice; no aggregate is sent for an empty buffer; and send_events never  *)
(* ends without setting its next timer.                                    *)
C24_EveryPickForwardedOnce ==
    /\ PicksForwardedOnce
    /\ \A i \in 1..Len(aggregates) : aggregates[i] # << >>
    /\ sender # "dead"

(* C25: a publisher's route is registered (set_publisher_route) only by    *)
(* the step that follows the installation of the last forwarding rule      *)
(* built from its path; a publisher for which get_path, the rule building, *)
(* an installation or the registration failed has no route; and a route    *)
(* once registered stays: no later step of on_start or of the maintenance  *)
(* ticks takes it out, registers it again or installs rules for it again.  *)
C25_RouteAfterAllRules ==
    [][/\ publisher_routes \subseteq publisher_routes'
       /\ \A p \in PublisherIds :
            /\ (p \in publisher_routes' /\ p \notin publisher_routes) =>
                   /\ start.pc = "install"
                   /\ start.rules_left = 0
                   /\ CurrentPub = p
                   /\ p \in tried
                   /\ p \notin failed'
            /\ p \in failed' => p \notin publisher_routes'
            /\ p \in publisher_routes => installed_rules'[p] = installed_rules[p]]_vars

C25_Witness ==
    /\ start.pc = "started"
    /\ publishers.given
    /\ publishers.list[1] \in publisher_routes
    /\ installed_rules[publishers.list[1]] = MaxRules
    /\ publishers.list[2] \in failed
    /\ installed_rules[publishers.list[2]] > 0
    /\ Len(refreshes) > 0

TypeOK ==
    /\ use_multicast \in BOOLEAN
    /\ rided \in {"None", "Configured", "Ready"}
    /\ DOMAIN subscribers \subseteq Topics
    /\ subscriber_lock \in SubThreads \cup {NoThread}
    /\ timer_scheduled \in BOOLEAN
    /\ elapsed \in 0..MaxTicks
    /\ pending \in 0..MaxTicks
    /\ updating \in BOOLEAN
    /\ Len(refreshes) <= MaxTicks
    /\ Len(events) <= MaxEvents
    /\ Len(notified) <= Len(events)
    /\ datagrams \in 0..MaxPicks
    /\ flushes \in 0..MaxFlushes
    /\ sender \in {"timer", "test", "send", "reset", "schedule", "dead"}
    /\ Len(events_rcvd) <= MaxPicks
====
